---- MODULE Spec2Model ----
(***************************************************************************)
(* k-means colour quantisation (styanr/kmeans): a model of clusterizeImage *)
(* and of the helpers it calls (toPixelArray, fromPixelArray, unique,      *)
(* distance), translated from src/unnamed/part_000 (the worker build of    *)
(* the library) and src/app/src/lib/api.ts (the instrumented build).       *)
(*                                                                         *)
(* JavaScript numbers are modelled as exact rationals [num, den] in lowest *)
(* terms with den > 0; [num |-> 1, den |-> 0] stands for Infinity.  The    *)
(* values the program computes here are sums of bytes divided by counts,   *)
(* so they are rationals; the rounding of IEEE doubles is not modelled.    *)
(***************************************************************************)
EXTENDS Integers, Sequences, FiniteSets, TLC

(***************************************************************************)
(* Bounds of the model.                                                    *)
(***************************************************************************)
MaxWidth == 5
MaxHeight == 2
MaxArea == 6
MaxStride == 2

(***************************************************************************)
(* Numbers.                                                                *)
(***************************************************************************)
RECURSIVE GCD(_, _)
GCD(a, b) == IF b = 0 THEN a ELSE GCD(b, a % b)

Abs(x) == IF x < 0 THEN -x ELSE x

Rat(n, d) ==
  LET g == GCD(Abs(n), Abs(d))
      s == IF d < 0 THEN -1 ELSE 1
  IN  [num |-> (s * n) \div g, den |-> (s * d) \div g]

Int2Rat(n) == [num |-> n, den |-> 1]

Zero == Int2Rat(0)

Infinity == [num |-> 1, den |-> 0]

RAdd(a, b) == Rat(a.num * b.den + b.num * a.den, a.den * b.den)

RSub(a, b) == Rat(a.num * b.den - b.num * a.den, a.den * b.den)

RDiv(a, b) == Rat(a.num * b.den, a.den * b.num)

RLess(a, b) == a.num * b.den < b.num * a.den

RSquare(a) == [num |-> a.num * a.num, den |-> a.den * a.den]

\* Math.ceil(a / b) for positive integers
MathCeilDiv(a, b) == (a + b - 1) \div b

\* A rounding that takes a half to the integer below
MathRoundHalfDown(x) == Int2Rat((2 * x.num + x.den - 1) \div (2 * x.den))

\* Math.round(x): the nearest integer, a half rounded up (floor(x + 1/2))
MathRound(x) == Int2Rat((2 * x.num + x.den) \div (2 * x.den))

\* The store conversion of a Uint8ClampedArray element: clamp to [0, 255],
\* round to the nearest integer, a half to the even neighbour.
ToUint8Clamp(x) ==
  IF ~RLess(Zero, x) THEN 0
  ELSE IF ~RLess(x, Int2Rat(255)) THEN 255
  ELSE LET f == x.num \div x.den
           twice == 2 * (x.num - f * x.den)
       IN  IF twice < x.den THEN f
           ELSE IF twice > x.den THEN f + 1
           ELSE IF f % 2 = 0 THEN f ELSE f + 1

(***************************************************************************)
(* Pixel: four numeric channels.                                           *)
(***************************************************************************)
Pixel(r, g, b, a) == [red |-> r, green |-> g, blue |-> b, alpha |-> a]

\* A hole of `new Array(n)`: a slot that was never assigned.
Hole == [hole |-> TRUE]

\* The values the loop `for (v = 0; v < limit; v += step)` takes, in order.
LoopValues(limit, step) ==
  [j \in 1..MathCeilDiv(limit, step) |-> (j - 1) * step]

\* The offsets the loop `for (vv = 0; vv < step && v + vv < limit; vv++)` takes.
InnerValues(v, limit, step) ==
  {vv \in 0..(step - 1) : v + vv < limit}

\* A guard that rejects only a buffer too short for the dimensions
InvalidDimensionsTooShort(data, height, width) ==
  RLess(Rat(Len(data), 4), Int2Rat(height * width))

\* toPixelArray's guard: height * width !== data.length / 4
InvalidDimensions(data, height, width) ==
  Int2Rat(height * width) # Rat(Len(data), 4)

\* A sampler that divides every cell's sums by xStep * yStep
toPixelArrayFullCellCount(data, height, width, xStep, yStep) ==
  LET ys == LoopValues(height, yStep)
      xs == LoopValues(width, xStep)
      cell(y, x) ==
        LET idxs == {((y + yy) * width + (x + xx)) * 4 :
                       yy \in InnerValues(y, height, yStep),
                       xx \in InnerValues(x, width, xStep)}
            count == xStep * yStep
            sum(off) ==
              LET RECURSIVE Add(_)
                  Add(S) == IF S = {} THEN 0
                            ELSE LET e == CHOOSE e \in S : TRUE
                                 IN  data[e + off + 1] + Add(S \ {e})
              IN  Add(idxs)
        IN  Pixel(Rat(sum(0), count), Rat(sum(1), count),
                  Rat(sum(2), count), Rat(sum(3), count))
  IN  [index \in 1..(Len(ys) * Len(xs)) |->
         cell(ys[((index - 1) \div Len(xs)) + 1], xs[((index - 1) % Len(xs)) + 1])]

\* toPixelArray, the sampling loops (the guard has passed)
toPixelArray(data, height, width, xStep, yStep) ==
  LET ys == LoopValues(height, yStep)
      xs == LoopValues(width, xStep)
      cell(y, x) ==
        LET idxs == {((y + yy) * width + (x + xx)) * 4 :
                       yy \in InnerValues(y, height, yStep),
                       xx \in InnerValues(x, width, xStep)}
            count == Cardinality(idxs)
            sum(off) ==
              LET RECURSIVE Add(_)
                  Add(S) == IF S = {} THEN 0
                            ELSE LET e == CHOOSE e \in S : TRUE
                                 IN  data[e + off + 1] + Add(S \ {e})
              IN  Add(idxs)
        IN  Pixel(Rat(sum(0), count), Rat(sum(1), count),
                  Rat(sum(2), count), Rat(sum(3), count))
  IN  [index \in 1..(Len(ys) * Len(xs)) |->
         cell(ys[((index - 1) \div Len(xs)) + 1], xs[((index - 1) % Len(xs)) + 1])]

\* A grid-size check that takes the steps in the other order
GridSizeMismatchSwappedSteps(pixels, height, width, xStep, yStep) ==
  Len(pixels) # MathCeilDiv(width, yStep) * MathCeilDiv(height, xStep)

\* fromPixelArray's guard: pixels.length !== cellsX * cellsY
GridSizeMismatch(pixels, height, width, xStep, yStep) ==
  Len(pixels) # MathCeilDiv(width, xStep) * MathCeilDiv(height, yStep)

\* The channel fromPixelArray stores at output[idx + offset]
ChannelAtBGRA(px, offset) ==
  CASE offset = 0 -> px.blue
    [] offset = 1 -> px.green
    [] offset = 2 -> px.red
    [] OTHER -> px.alpha

ChannelAt(px, offset) ==
  CASE offset = 0 -> px.red
    [] offset = 1 -> px.green
    [] offset = 2 -> px.blue
    [] OTHER -> px.alpha

\* fromPixelArray, the broadcasting loops (the guard has passed): the cells are
\* visited in the order of the sampling loops, and cell number index writes
\* pixels[index] to every byte position of the in-bounds pixels it covers.
fromPixelArray(pixels, height, width, xStep, yStep) ==
  LET ys == LoopValues(height, yStep)
      xs == LoopValues(width, xStep)
      store(output, index) ==
        LET y == ys[((index - 1) \div Len(xs)) + 1]
            x == xs[((index - 1) % Len(xs)) + 1]
            idxs == {((y + yy) * width + (x + xx)) * 4 :
                       yy \in InnerValues(y, height, yStep),
                       xx \in InnerValues(x, width, xStep)}
            px == pixels[index]
        IN  [p \in DOMAIN output |->
               IF (p - 1) - ((p - 1) % 4) \in idxs
               THEN ToUint8Clamp(ChannelAt(px, (p - 1) % 4))
               ELSE output[p]]
      RECURSIVE Fill(_, _)
      Fill(output, index) ==
        IF index > Len(ys) * Len(xs) THEN output
        ELSE Fill(store(output, index), index + 1)
  IN  Fill([p \in 1..(width * height * 4) |-> 0], 1)

\* JSON.stringify of a Pixel: its four numbers in key order
encoder(item) == <<item.red, item.green, item.blue, item.alpha>>

\* JSON.parse of such a string
decoder(item) == Pixel(item[1], item[2], item[3], item[4])

\* [...new Set(strings)]: the distinct strings in order of first occurrence
RECURSIVE SetOrder(_, _)
SetOrder(strings, seen) ==
  IF strings = <<>> THEN seen
  ELSE IF \E j \in 1..Len(seen) : seen[j] = Head(strings)
       THEN SetOrder(Tail(strings), seen)
       ELSE SetOrder(Tail(strings), Append(seen, Head(strings)))

unique(arr) ==
  LET strings == [j \in 1..Len(arr) |-> encoder(arr[j])]
      set == SetOrder(strings, <<>>)
  IN  [j \in 1..Len(set) |-> decoder(set[j])]

\* (p.alpha - c.alpha) ** 2 + (p.red - c.red) ** 2 + (p.green - c.green) ** 2
\*   + (p.blue - c.blue) ** 2
distSquared(p, c) ==
  RAdd(RAdd(RSquare(RSub(p.alpha, c.alpha)), RSquare(RSub(p.red, c.red))),
       RAdd(RSquare(RSub(p.green, c.green)), RSquare(RSub(p.blue, c.blue))))

\* distance(a, b): the square root of the sum of the squared channel
\* differences, kept as the root of its radicand.
distance(a, b) == [sqrtOf |-> distSquared(a, b)]

\* A convergence comparison that is not strict
SqrtLessOrEqual(dist, t) ==
  ~RLess(t, Zero) /\ ~RLess(RSquare(t), dist.sqrtOf)

\* dist < tolerance for dist a square root: the root of r is below t exactly
\* when t is positive and r is below t * t.
SqrtLess(dist, t) == RLess(Zero, t) /\ RLess(dist.sqrtOf, RSquare(t))

(***************************************************************************)
(* Inputs.  An image is a window of a repeating colour pattern: pixel j    *)
(* has the colour Palette[(start + j * stride) mod Len(Palette)].  The     *)
(* palette is five colours on two orthogonal axes of the four-channel      *)
(* space (the second axis differs in green, blue and alpha); stride 0      *)
(* gives a single-colour image.                                            *)
(***************************************************************************)
Palette ==
  << <<0, 0, 0, 0>>, <<1, 0, 0, 0>>, <<2, 0, 0, 0>>,
     <<0, 2, 2, 1>>, <<1, 2, 2, 1>> >>

Dims ==
  {d \in (1..MaxWidth) \X (1..MaxHeight) : d[1] * d[2] <= MaxArea}

\* The flat R,G,B,A buffer of a w x h image
ImageData(w, h, start, stride) ==
  [p \in 1..(w * h * 4) |->
     Palette[((start + ((p - 1) \div 4) * stride) % Len(Palette)) + 1][((p - 1) % 4) + 1]]

Tenth == Rat(1, 10)

\* The defaults of clusterizeImage
DefaultOptions ==
  [xStep |-> 1, yStep |-> 1, clusterQuantity |-> 2, maxIterations |-> 100,
   tolerance |-> Tenth]

NoOptions == [k \in {} |-> 0]

\* The Partial<ClusterizeImageOptions> values a call is made with
OptionSets ==
  { NoOptions,
    [clusterQuantity |-> 1],
    [clusterQuantity |-> 3],
    [clusterQuantity |-> 3, tolerance |-> Rat(1, 2)],
    [xStep |-> 2],
    [yStep |-> 2],
    [xStep |-> 2, yStep |-> 2],
    [maxIterations |-> 1],
    [maxIterations |-> 2, tolerance |-> Zero],
    [maxIterations |-> 3, tolerance |-> Int2Rat(1)],
    [maxIterations |-> 0] }

\* { ...defaults, ...options }
MergeOptions(defaults, partial) ==
  [k \in DOMAIN defaults \cup DOMAIN partial |->
     IF k \in DOMAIN partial THEN partial[k] ELSE defaults[k]]

(***************************************************************************)
(* The state of one call of clusterizeImage.                               *)
(***************************************************************************)
VARIABLES
  pc,                 \* the statement the call is at
  data, width, height,\* imageData
  allOptions,
  pixels, uniqueColors, centroids, clusters, picked,
  i,                  \* the counter of the initialization loop
  previousCentroids, iteration,
  iterationCount,     \* the instrumented build's count of the rounds started
  hasConverged,
  newData,            \* the buffer of the returned ImageData
  error               \* the message of the Error the call threw

(***************************************************************************)
(* The state of the page (App.svelte) and of its worker                    *)
(* (cluster.worker.ts), which runs the calls of clusterizeImage.           *)
(***************************************************************************)
VARIABLES
  imageFile,          \* the uploaded file (0: none)
  options,            \* xStep, yStep, clusterQuantity, maxIterations, tolerance
  isLoading,
  submits,            \* the position of every call of onSubmit
  promises,           \* the resolve and reject calls made on every promise
                      \* of runClusteringInWorker
  listeners,          \* the requests whose messageHandler and errorHandler
                      \* are registered on the worker
  inbox,              \* messages posted to the worker, not yet handled
  workerRequest,      \* the request self.onmessage is handling (0: none)
  outbox,             \* messages posted by the worker, not yet dispatched
  log                 \* every message the worker has posted

uiVars ==
  <<imageFile, options, isLoading, submits, promises, listeners, inbox,
    workerRequest, outbox, log>>

vars ==
  <<pc, data, width, height, allOptions, pixels, uniqueColors, centroids,
    clusters, picked, i, previousCentroids, iteration, iterationCount,
    hasConverged, newData, error, imageFile, options, isLoading, submits,
    promises, listeners, inbox, workerRequest, outbox, log>>

NoCalls == [k \in {} |-> 0]

\* The page after construction and onMount: no file, the default values of
\* the form, the worker created and idle.
InitPage ==
  /\ imageFile = 0
  /\ options = DefaultOptions
  /\ isLoading = FALSE
  /\ submits = NoCalls
  /\ promises = NoCalls
  /\ listeners = {}
  /\ inbox = <<>>
  /\ workerRequest = 0
  /\ outbox = <<>>
  /\ log = <<>>

NoClusters == [k \in {} |-> 0]

Locals(opts) ==
  /\ allOptions = opts
  /\ pc = "toPixelArray"
  /\ pixels = <<>>
  /\ uniqueColors = <<>>
  /\ centroids = <<>>
  /\ clusters = NoClusters
  /\ picked = <<>>
  /\ i = 0
  /\ previousCentroids = <<>>
  /\ iteration = 0
  /\ iterationCount = 0
  /\ hasConverged = FALSE
  /\ newData = <<>>
  /\ error = ""
  /\ InitPage

\* A call: the buffer of an image, the last `cut` bytes dropped, passed with
\* a width that differs by `dw` from the image's.
Init ==
  \E d \in Dims, start \in 0..(Len(Palette) - 1), stride \in 0..MaxStride,
     dw \in -1..1, cut \in 0..1, partial \in OptionSets :
    /\ d[1] + dw >= 1
    /\ data = SubSeq(ImageData(d[1], d[2], start, stride), 1, d[1] * d[2] * 4 - cut)
    /\ width = d[1] + dw
    /\ height = d[2]
    /\ Locals(MergeOptions(DefaultOptions, partial))

(***************************************************************************)
(* clusterizeImage, statement by statement.                                *)
(***************************************************************************)
Throw(message) ==
  /\ pc' = "error"
  /\ error' = message

\* const pixels = toPixelArray(imageData.data, imageData.height, ...)
Sample ==
  /\ pc = "toPixelArray"
  /\ IF InvalidDimensions(data, height, width)
     THEN /\ Throw("Invalid image dimensions")
          /\ UNCHANGED pixels
     ELSE /\ pixels' = toPixelArray(data, height, width,
                                    allOptions.xStep, allOptions.yStep)
          /\ pc' = "unique"
          /\ UNCHANGED error
  /\ UNCHANGED <<data, width, height, allOptions, uniqueColors, centroids,
                 clusters, picked, i, previousCentroids, iteration,
                 iterationCount, hasConverged, newData>>
  /\ UNCHANGED uiVars

\* uniqueColors, and the allocation of centroids, clusters and picked
Prepare ==
  /\ pc = "unique"
  /\ uniqueColors' = unique(pixels)
  /\ centroids' = [j \in 1..allOptions.clusterQuantity |-> Hole]
  /\ clusters' = NoClusters
  /\ picked' = [j \in 1..allOptions.clusterQuantity |-> Hole]
  /\ i' = 0
  /\ pc' = "init"
  /\ UNCHANGED <<data, width, height, allOptions, pixels, previousCentroids,
                 iteration, iterationCount, hasConverged, newData, error>>
  /\ UNCHANGED uiVars

\* The values of Math.floor(Math.random() * length)
RandomIndex(length) == IF length = 0 THEN {0} ELSE 0..(length - 1)

\* An assigned slot of an array of numbers
Num(n) == [value |-> n]

\* picked.includes(index)
Includes(array, index) == \E j \in 1..Len(array) : array[j] = Num(index)

\* The condition of the initialization loop
InitCondition == i < allOptions.clusterQuantity

\* One round of the do-while loop of centroid initialization: a draw that
\* picked already includes is rejected and the loop draws again (the state
\* is as before); any other draw seeds centroid i.  After the last centroid
\* the k-means loop is entered.
Draw ==
  /\ pc = "init"
  /\ IF InitCondition
     THEN \E index \in RandomIndex(Len(uniqueColors)) :
            IF Includes(picked, index)
            THEN UNCHANGED <<pc, picked, centroids, i>>
            ELSE /\ picked' = [picked EXCEPT ![i + 1] = Num(index)]
                 /\ centroids' = [centroids EXCEPT ![i + 1] = uniqueColors[index + 1]]
                 /\ i' = i + 1
                 /\ UNCHANGED pc
     ELSE /\ pc' = "loop"
          /\ UNCHANGED <<picked, centroids, i>>
  /\ UNCHANGED <<data, width, height, allOptions, pixels, uniqueColors,
                 clusters, previousCentroids, iteration, iterationCount,
                 hasConverged, newData, error>>
  /\ UNCHANGED uiVars

\* A scan in which a centroid at the same distance replaces the earlier one
RECURSIVE ScanCentroidsLastWins(_, _, _, _, _)
ScanCentroidsLastWins(p, cents, ci, closestCentroid, minDistanceSquared) ==
  IF ~(ci < Len(cents)) THEN closestCentroid
  ELSE LET d == distSquared(p, cents[ci + 1])
       IN  IF ~RLess(minDistanceSquared, d)
           THEN ScanCentroidsLastWins(p, cents, ci + 1, ci, d)
           ELSE ScanCentroidsLastWins(p, cents, ci + 1, closestCentroid,
                                      minDistanceSquared)

\* A scan that never lowers the minimum it compares with
RECURSIVE ScanCentroidsStaleMinimum(_, _, _, _, _)
ScanCentroidsStaleMinimum(p, cents, ci, closestCentroid, minDistanceSquared) ==
  IF ~(ci < Len(cents)) THEN closestCentroid
  ELSE LET d == distSquared(p, cents[ci + 1])
       IN  IF RLess(d, minDistanceSquared)
           THEN ScanCentroidsStaleMinimum(p, cents, ci + 1, ci, minDistanceSquared)
           ELSE ScanCentroidsStaleMinimum(p, cents, ci + 1, closestCentroid,
                                          minDistanceSquared)

\* The assignment pass for one sample: the scan over the centroids, which
\* keeps the first centroid of strictly smaller squared distance.
RECURSIVE ScanCentroids(_, _, _, _, _)
ScanCentroids(p, cents, ci, closestCentroid, minDistanceSquared) ==
  IF ~(ci < Len(cents)) THEN closestCentroid
  ELSE LET d == distSquared(p, cents[ci + 1])
       IN  IF RLess(d, minDistanceSquared)
           THEN ScanCentroids(p, cents, ci + 1, ci, d)
           ELSE ScanCentroids(p, cents, ci + 1, closestCentroid, minDistanceSquared)

\* An assignment pass that records the cluster numbers counted from one
AssignOneBased(pxs, cents, old) ==
  [pixel \in DOMAIN old \cup 0..(Len(pxs) - 1) |->
     IF pixel < Len(pxs)
     THEN ScanCentroids(pxs[pixel + 1], cents, 0, 0, Infinity) + 1
     ELSE old[pixel]]

\* clusters after the assignment pass: clusters.set(pixel, closestCentroid)
\* for every pixel
Assign(pxs, cents, old) ==
  [pixel \in DOMAIN old \cup 0..(Len(pxs) - 1) |->
     IF pixel < Len(pxs)
     THEN ScanCentroids(pxs[pixel + 1], cents, 0, 0, Infinity)
     ELSE old[pixel]]

\* clusterSums[ci] after the accumulation loop
RECURSIVE ClusterSum(_, _, _, _, _)
ClusterSum(pxs, cl, ci, pixel, sum) ==
  IF ~(pixel < Len(pxs)) THEN sum
  ELSE IF cl[pixel] = ci
       THEN LET p == pxs[pixel + 1]
            IN  ClusterSum(pxs, cl, ci, pixel + 1,
                  [red |-> RAdd(sum.red, p.red), green |-> RAdd(sum.green, p.green),
                   blue |-> RAdd(sum.blue, p.blue), alpha |-> RAdd(sum.alpha, p.alpha),
                   count |-> sum.count + 1])
       ELSE ClusterSum(pxs, cl, ci, pixel + 1, sum)

EmptySum == [red |-> Zero, green |-> Zero, blue |-> Zero, alpha |-> Zero, count |-> 0]

\* if (sum.count > 0): the guard of the centroid update
UpdateGuard(sum) == sum.count > 0

\* An update pass that resets the centroid of a cluster without members
UpdateResetEmpty(pxs, cl, cents) ==
  [j \in 1..Len(cents) |->
     LET sum == ClusterSum(pxs, cl, j - 1, 0, EmptySum)
         n == IF sum.count > 0 THEN sum.count ELSE 1
     IN  Pixel(RDiv(sum.red, Int2Rat(n)), RDiv(sum.green, Int2Rat(n)),
               RDiv(sum.blue, Int2Rat(n)), RDiv(sum.alpha, Int2Rat(n)))]

\* The update pass: the mean of the members, or the old centroid
Update(pxs, cl, cents) ==
  [j \in 1..Len(cents) |->
     LET sum == ClusterSum(pxs, cl, j - 1, 0, EmptySum)
     IN  IF UpdateGuard(sum)
         THEN Pixel(RDiv(sum.red, Int2Rat(sum.count)),
                    RDiv(sum.green, Int2Rat(sum.count)),
                    RDiv(sum.blue, Int2Rat(sum.count)),
                    RDiv(sum.alpha, Int2Rat(sum.count)))
         ELSE cents[j]]

\* centroids.every((centroid, i) => distance(centroid, previousCentroids[i]) < tolerance)
Converged(cents, prev, tolerance) ==
  \A j \in 1..Len(cents) : SqrtLess(distance(cents[j], prev[j]), tolerance)

\* A loop test that is off by one
LoopConditionInclusive == iteration <= allOptions.maxIterations

\* The condition of the k-means loop
LoopCondition == iteration < allOptions.maxIterations

\* One round of the k-means loop: the loop test, and when it passes the
\* snapshot, the assignment pass, the update pass and the convergence check.
Iterate ==
  /\ pc = "loop"
  /\ IF LoopCondition
     THEN LET cl == Assign(pixels, centroids, clusters)
              cents == Update(pixels, cl, centroids)
              conv == Converged(cents, centroids, allOptions.tolerance)
          IN  /\ iterationCount' = iteration + 1
              /\ previousCentroids' = centroids
              /\ clusters' = cl
              /\ centroids' = cents
              /\ hasConverged' = conv
              /\ IF conv
                 THEN pc' = "reconstruct" /\ UNCHANGED iteration
                 ELSE iteration' = iteration + 1 /\ UNCHANGED pc
     ELSE /\ pc' = "reconstruct"
          /\ UNCHANGED <<iterationCount, previousCentroids, clusters, centroids,
                         hasConverged, iteration>>
  /\ UNCHANGED <<data, width, height, allOptions, pixels, uniqueColors,
                 picked, i, newData, error>>
  /\ UNCHANGED uiVars

\* A relabelling that rounds every sample's own channels
RelabelOwnColour(pxs, cl, cents) ==
  [j \in 1..Len(pxs) |->
     Pixel(MathRound(pxs[j].red), MathRound(pxs[j].green),
           MathRound(pxs[j].blue), MathRound(pxs[j].alpha))]

\* The relabelling loop: every sample takes the rounded channels of the
\* centroid of its cluster.  clusters.get(i) is undefined for a sample that
\* was never assigned, and reading a channel of centroids[undefined] throws.
Relabel(pxs, cl, cents) ==
  [j \in 1..Len(pxs) |->
     LET centroid == cents[cl[j - 1] + 1]
     IN  Pixel(MathRound(centroid.red), MathRound(centroid.green),
               MathRound(centroid.blue), MathRound(centroid.alpha))]

\* A reconstruction that copies the new buffer over the input buffer
\* (imageData.data.set(newData))
ReconstructInPlace ==
  /\ pc = "reconstruct"
  /\ IF \E j \in 0..(Len(pixels) - 1) : j \notin DOMAIN clusters
     THEN /\ Throw("Cannot read properties of undefined")
          /\ UNCHANGED <<pixels, newData, data>>
     ELSE LET relabelled == Relabel(pixels, clusters, centroids)
          IN  /\ pixels' = relabelled
              /\ IF GridSizeMismatch(relabelled, height, width,
                                     allOptions.xStep, allOptions.yStep)
                 THEN /\ Throw("Pixel array length does not match expected grid size")
                      /\ UNCHANGED <<newData, data>>
                 ELSE /\ newData' = fromPixelArray(relabelled, height, width,
                                                   allOptions.xStep, allOptions.yStep)
                      /\ data' = newData'
                      /\ pc' = "done"
                      /\ UNCHANGED error
  /\ UNCHANGED <<width, height, allOptions, uniqueColors, centroids,
                 clusters, picked, i, previousCentroids, iteration,
                 iterationCount, hasConverged>>
  /\ UNCHANGED uiVars

Reconstruct ==
  /\ pc = "reconstruct"
  /\ IF \E j \in 0..(Len(pixels) - 1) : j \notin DOMAIN clusters
     THEN /\ Throw("Cannot read properties of undefined")
          /\ UNCHANGED <<pixels, newData>>
     ELSE LET relabelled == Relabel(pixels, clusters, centroids)
          IN  /\ pixels' = relabelled
              /\ IF GridSizeMismatch(relabelled, height, width,
                                     allOptions.xStep, allOptions.yStep)
                 THEN /\ Throw("Pixel array length does not match expected grid size")
                      /\ UNCHANGED newData
                 ELSE /\ newData' = fromPixelArray(relabelled, height, width,
                                                   allOptions.xStep, allOptions.yStep)
                      /\ pc' = "done"
                      /\ UNCHANGED error
  /\ UNCHANGED <<data, width, height, allOptions, uniqueColors, centroids,
                 clusters, picked, i, previousCentroids, iteration,
                 iterationCount, hasConverged>>
  /\ UNCHANGED uiVars

Next == Sample \/ Prepare \/ Draw \/ Iterate \/ Reconstruct

Spec == Init /\ [][Next]_vars

(***************************************************************************)
(* The 2 x 2 scenario: four pixels of pairwise distinct colours, clustered *)
(* with clusterQuantity 2, steps 1, tolerance 0.1 and maxIterations 100.   *)
(***************************************************************************)
ScenarioPalette ==
  Palette \o << <<0, 1, 0, 0>>, <<255, 255, 255, 255>> >>

ScenarioOptions ==
  [xStep |-> 1, yStep |-> 1, clusterQuantity |-> 2, maxIterations |-> 100,
   tolerance |-> Tenth]

Init2x2 ==
  \E colour \in [1..4 -> 1..Len(ScenarioPalette)] :
    /\ \A a, b \in 1..4 : a # b => colour[a] # colour[b]
    /\ data = [p \in 1..16 |->
                 ScenarioPalette[colour[((p - 1) \div 4) + 1]][((p - 1) % 4) + 1]]
    /\ width = 2
    /\ height = 2
    /\ Locals(MergeOptions(DefaultOptions, ScenarioOptions))

Spec2x2 == Init2x2 /\ [][Next]_vars

(***************************************************************************)
(* toPixelArray and fromPixelArray called one after the other on a buffer  *)
(* of bytes, with the same dimensions and steps.                           *)
(***************************************************************************)
ByteStarts == {0, 127, 255}

ByteStrides == {0, 1, 51, 254}

Steps == {1, 2}

BytePattern(w, h, a, b) == [p \in 1..(w * h * 4) |-> (a + (p - 1) * b) % 256]

InitRoundTrip ==
  \E d \in Dims, a \in ByteStarts, b \in ByteStrides, cut \in 0..1,
     xs \in Steps, ys \in Steps :
    /\ data = SubSeq(BytePattern(d[1], d[2], a, b), 1, d[1] * d[2] * 4 - cut)
    /\ width = d[1]
    /\ height = d[2]
    /\ allOptions = MergeOptions(DefaultOptions, [xStep |-> xs, yStep |-> ys])
    /\ pc = "sampler"
    /\ pixels = <<>>
    /\ uniqueColors = <<>>
    /\ centroids = <<>>
    /\ clusters = NoClusters
    /\ picked = <<>>
    /\ i = 0
    /\ previousCentroids = <<>>
    /\ iteration = 0
    /\ iterationCount = 0
    /\ hasConverged = FALSE
    /\ newData = <<>>
    /\ error = ""
    /\ InitPage

\* toPixelArray(data, height, width, xStep, yStep)
SamplerCall ==
  /\ pc = "sampler"
  /\ IF InvalidDimensions(data, height, width)
     THEN /\ Throw("Invalid image dimensions")
          /\ UNCHANGED pixels
     ELSE /\ pixels' = toPixelArray(data, height, width,
                                    allOptions.xStep, allOptions.yStep)
          /\ pc' = "recomposer"
          /\ UNCHANGED error
  /\ UNCHANGED <<data, width, height, allOptions, uniqueColors, centroids,
                 clusters, picked, i, previousCentroids, iteration,
                 iterationCount, hasConverged, newData>>
  /\ UNCHANGED uiVars

\* fromPixelArray(pixels, height, width, xStep, yStep)
RecomposerCall ==
  /\ pc = "recomposer"
  /\ IF GridSizeMismatch(pixels, height, width, allOptions.xStep, allOptions.yStep)
     THEN /\ Throw("Pixel array length does not match expected grid size")
          /\ UNCHANGED newData
     ELSE /\ newData' = fromPixelArray(pixels, height, width,
                                       allOptions.xStep, allOptions.yStep)
          /\ pc' = "returned"
          /\ UNCHANGED error
  /\ UNCHANGED <<data, width, height, allOptions, pixels, uniqueColors,
                 centroids, clusters, picked, i, previousCentroids, iteration,
                 iterationCount, hasConverged>>
  /\ UNCHANGED uiVars

NextRoundTrip == SamplerCall \/ RecomposerCall

SpecRoundTrip == InitRoundTrip /\ [][NextRoundTrip]_vars

(***************************************************************************)
(* The page and its worker.  The page posts one message per submitted form *)
(* to the worker; the worker runs clusterizeImage on it (the actions       *)
(* Sample, Prepare, Draw, Iterate and Reconstruct above, one call at a     *)
(* time) and posts the outcome back.                                       *)
(***************************************************************************)
MaxRequests == 2

coreVars ==
  <<pc, data, width, height, allOptions, pixels, uniqueColors, centroids,
    clusters, picked, i, previousCentroids, iteration, iterationCount,
    hasConverged, newData, error>>

\* What getImageData makes of the files the user uploads: the ImageData of a
\* one-colour pixel, of two and of three pixels of different colours, and a
\* file whose image fails to load (img.onerror).
Files ==
  << [ok |-> TRUE, width |-> 1, height |-> 1, data |-> ImageData(1, 1, 0, 0)],
     [ok |-> TRUE, width |-> 2, height |-> 1, data |-> ImageData(2, 1, 0, 1)],
     [ok |-> TRUE, width |-> 3, height |-> 1, data |-> ImageData(3, 1, 1, 1)],
     [ok |-> FALSE, width |-> 0, height |-> 0, data |-> <<>>] >>

\* The values of the form's fields.  maxIterations 0 is the emptied Max
\* Iterations field: its value compares as 0 in the loop test.
FormValues ==
  { DefaultOptions,
    [DefaultOptions EXCEPT !.clusterQuantity = 1],
    [DefaultOptions EXCEPT !.xStep = 2],
    [DefaultOptions EXCEPT !.maxIterations = 0] }

\* The worker between two messages
IdleWorker ==
  /\ pc = "idle"
  /\ data = <<>>
  /\ width = 0
  /\ height = 0
  /\ allOptions = DefaultOptions
  /\ pixels = <<>>
  /\ uniqueColors = <<>>
  /\ centroids = <<>>
  /\ clusters = NoClusters
  /\ picked = <<>>
  /\ i = 0
  /\ previousCentroids = <<>>
  /\ iteration = 0
  /\ iterationCount = 0
  /\ hasConverged = FALSE
  /\ newData = <<>>
  /\ error = ""

InitWorker == InitPage /\ IdleWorker

\* onUpload(files): the drop zone is rendered only while there is no file
onUpload ==
  /\ imageFile = 0
  /\ \E f \in 1..Len(Files) : imageFile' = f
  /\ UNCHANGED <<options, isLoading, submits, promises, listeners, inbox,
                 workerRequest, outbox, log>>
  /\ UNCHANGED coreVars

\* bind:value of the fields of the form (rendered only while there is a file)
Input ==
  /\ imageFile # 0
  /\ \E v \in FormValues \ {options} : options' = v
  /\ UNCHANGED <<imageFile, isLoading, submits, promises, listeners, inbox,
                 workerRequest, outbox, log>>
  /\ UNCHANGED coreVars

\* reset, the handler of a button that is disabled while isLoading
reset ==
  /\ imageFile # 0
  /\ ~isLoading
  /\ imageFile' = 0
  /\ options' = DefaultOptions
  /\ UNCHANGED <<isLoading, submits, promises, listeners, inbox,
                 workerRequest, outbox, log>>
  /\ UNCHANGED coreVars

\* A submit button that is never disabled
SubmitAlwaysEnabled == TRUE

\* <Button disabled={isLoading} type="submit">
SubmitEnabled == ~isLoading

Put(f, k, v) == [x \in DOMAIN f \cup {k} |-> IF x = k THEN v ELSE f[x]]

\* onSubmit up to `await getImageData(imageFile)`.  The form is rendered only
\* while there is a file, so the early return is never taken.
onSubmit ==
  /\ imageFile # 0
  /\ SubmitEnabled
  /\ Cardinality(DOMAIN submits) < MaxRequests
  /\ isLoading' = TRUE
  /\ submits' = Put(submits, Cardinality(DOMAIN submits) + 1,
                    [at |-> "getImageData", file |-> imageFile])
  /\ UNCHANGED <<imageFile, options, promises, listeners, inbox,
                 workerRequest, outbox, log>>
  /\ UNCHANGED coreVars

\* The message runClusteringInWorker posts
Request(imageData, opts) == [imageData |-> imageData, options |-> opts]

\* getImageData settles.  Resolved: onSubmit reads the fields of the form and
\* calls runClusteringInWorker, which registers messageHandler and
\* errorHandler on the worker (created in onMount) and posts the request.
\* Rejected: catch, then finally.
runClusteringInWorker(id) ==
  /\ id \in DOMAIN submits
  /\ submits[id].at = "getImageData"
  /\ LET file == Files[submits[id].file]
     IN  IF file.ok
         THEN /\ promises' = Put(promises, id, <<>>)
              /\ listeners' = listeners \cup {id}
              /\ inbox' = Append(inbox,
                   [request |-> id,
                    data |-> Request([data |-> file.data, width |-> file.width,
                                         height |-> file.height], options)])
              /\ submits' = [submits EXCEPT ![id].at = "runClusteringInWorker"]
              /\ UNCHANGED isLoading
         ELSE /\ isLoading' = FALSE
              /\ submits' = [submits EXCEPT ![id].at = "returned"]
              /\ UNCHANGED <<promises, listeners, inbox>>
  /\ UNCHANGED <<imageFile, options, workerRequest, outbox, log>>
  /\ UNCHANGED coreVars

\* self.onmessage up to the call of clusterizeImage(imageData, options)
onmessage ==
  /\ pc = "idle"
  /\ workerRequest = 0
  /\ inbox # <<>>
  /\ LET event == Head(inbox)
     IN  /\ workerRequest' = event.request
         /\ data' = event.data.imageData.data
         /\ width' = event.data.imageData.width
         /\ height' = event.data.imageData.height
         /\ allOptions' = MergeOptions(DefaultOptions, event.data.options)
  /\ inbox' = Tail(inbox)
  /\ pc' = "toPixelArray"
  /\ UNCHANGED <<pixels, uniqueColors, centroids, clusters, picked, i,
                 previousCentroids, iteration, iterationCount, hasConverged,
                 newData, error>>
  /\ UNCHANGED <<imageFile, options, isLoading, submits, promises, listeners,
                 outbox, log>>

\* The end of self.onmessage: the locals of the call are gone
Return ==
  /\ pc' = "idle"
  /\ data' = <<>>
  /\ width' = 0
  /\ height' = 0
  /\ allOptions' = DefaultOptions
  /\ pixels' = <<>>
  /\ uniqueColors' = <<>>
  /\ centroids' = <<>>
  /\ clusters' = NoClusters
  /\ picked' = <<>>
  /\ i' = 0
  /\ previousCentroids' = <<>>
  /\ iteration' = 0
  /\ iterationCount' = 0
  /\ hasConverged' = FALSE
  /\ newData' = <<>>
  /\ error' = ""
  /\ workerRequest' = 0

\* { status: "success", data: processedImageData }
SuccessResponse(processedImageData) ==
  [status |-> "success", data |-> processedImageData]

\* A failure message that carries the name of the error in place of its
\* message
ErrorResponseName(message) == [status |-> "error", error |-> "Error"]

\* { status: "error", error: (error as Error).message }
ErrorResponse(message) == [status |-> "error", error |-> message]

postMessage(message) ==
  /\ outbox' = Append(outbox, [request |-> workerRequest, data |-> message])
  /\ log' = Append(log, [request |-> workerRequest, data |-> message])

\* The try block after clusterizeImage has returned
PostSuccess ==
  /\ workerRequest # 0
  /\ pc = "done"
  /\ postMessage(SuccessResponse([data |-> newData, width |-> width,
                                  height |-> height]))
  /\ Return
  /\ UNCHANGED <<imageFile, options, isLoading, submits, promises, listeners,
                 inbox>>

\* The catch block
PostError ==
  /\ workerRequest # 0
  /\ pc = "error"
  /\ postMessage(ErrorResponse(error))
  /\ Return
  /\ UNCHANGED <<imageFile, options, isLoading, submits, promises, listeners,
                 inbox>>

\* A message event of the worker on the page: every registered messageHandler
\* runs.  It removes its two listeners and resolves its promise with
\* event.data.data (onSubmit goes on to imageDataToFile) or rejects it
\* (onSubmit goes through catch and finally).
messageHandler ==
  /\ outbox # <<>>
  /\ LET event == Head(outbox)
         outcome == IF event.data.status = "success" THEN "resolve" ELSE "reject"
     IN  /\ promises' = [id \in DOMAIN promises |->
                           IF id \in listeners
                           THEN Append(promises[id], outcome)
                           ELSE promises[id]]
         /\ submits' = [id \in DOMAIN submits |->
                          IF id \in listeners
                          THEN [submits[id] EXCEPT !.at =
                                  IF outcome = "resolve" THEN "imageDataToFile"
                                  ELSE "returned"]
                          ELSE submits[id]]
         /\ isLoading' = IF listeners # {} /\ outcome = "reject"
                         THEN FALSE ELSE isLoading
  /\ listeners' = {}
  /\ outbox' = Tail(outbox)
  /\ UNCHANGED <<imageFile, options, inbox, workerRequest, log>>
  /\ UNCHANGED coreVars

\* imageDataToFile settles: processedImageFile is set, or the rejection is
\* caught; then finally
imageDataToFile(id) ==
  /\ id \in DOMAIN submits
  /\ submits[id].at = "imageDataToFile"
  /\ isLoading' = FALSE
  /\ submits' = [submits EXCEPT ![id].at = "returned"]
  /\ UNCHANGED <<imageFile, options, promises, listeners, inbox,
                 workerRequest, outbox, log>>
  /\ UNCHANGED coreVars

RequestIds == 1..MaxRequests

NextWorker ==
  \/ onUpload
  \/ Input
  \/ reset
  \/ onSubmit
  \/ \E id \in RequestIds : runClusteringInWorker(id)
  \/ onmessage
  \/ Sample
  \/ Prepare
  \/ Draw
  \/ Iterate
  \/ Reconstruct
  \/ PostSuccess
  \/ PostError
  \/ messageHandler
  \/ \E id \in RequestIds : imageDataToFile(id)

SpecWorker == InitWorker /\ [][NextWorker]_vars

\* The steps of a call of clusterizeImage outside the k-means loop
CallStep == Sample \/ Prepare \/ Draw \/ Reconstruct

\* What a step of Iterate does to pc and iteration: the loop is left (the
\* loop test failed or the round converged), or the next round is due.  In
\* the state "loop" the steps that change <<pc, iteration>> are the steps of
\* Iterate.
Round ==
  /\ pc = "loop"
  /\ \/ pc' = "reconstruct" /\ iteration' = iteration
     \/ pc' = "loop" /\ iteration' = iteration + 1

\* The browser runs what it has queued: the load events of images, the
\* blobs of canvases, the message events of the page and of the worker, and
\* the code of a handler that has started.  A draw that is not rejected is a
\* step of Draw, so a loop of draws ends when a draw can be accepted.  The
\* user's actions (onUpload, Input, reset, onSubmit) are under no obligation.
FairSpecWorker ==
  /\ SpecWorker
  /\ WF_vars(\E id \in RequestIds : runClusteringInWorker(id))
  /\ WF_vars(onmessage)
  /\ WF_vars(CallStep)
  /\ WF_<<pc, iteration>>(Round)
  /\ WF_vars(PostSuccess \/ PostError)
  /\ WF_vars(messageHandler)
  /\ WF_vars(\E id \in RequestIds : imageDataToFile(id))

(***************************************************************************)
(* The properties.                                                         *)
(***************************************************************************)
AfterLoop == pc \in {"reconstruct", "done"}

\* A state in which the last completed round of the k-means loop is visible:
\* pixels, clusters, centroids and previousCentroids are as that round left them.
AfterRound == iterationCount >= 1 /\ pc \in {"loop", "reconstruct"}

SampleIndexes == 0..(Len(pixels) - 1)

ClusterIndexes == 0..(allOptions.clusterQuantity - 1)

\* C1: with maxIterations >= 1 no round of the k-means loop is started beyond
\* round number maxIterations - 1 (at most maxIterations rounds run), and
\* once the loop is left the engine is in exactly one terminal state:
\* Converged (the last round passed the convergence check) or
\* MaxIterationsReached (maxIterations rounds ran, the last did not pass it).
C1_TerminationBound ==
  allOptions.maxIterations >= 1 =>
    /\ iterationCount <= allOptions.maxIterations
    /\ iteration <= allOptions.maxIterations
    /\ AfterLoop =>
         \/ hasConverged /\ iteration < allOptions.maxIterations
         \/ ~hasConverged /\ iteration = allOptions.maxIterations
                          /\ iterationCount = allOptions.maxIterations

C1_Witness ==
  /\ pc = "done"
  /\ ~hasConverged
  /\ allOptions.maxIterations >= 2
  /\ iterationCount = allOptions.maxIterations

\* C2: when clusterQuantity exceeds the number of unique colours, centroid
\* initialization ends in an error before any round of the k-means loop: once
\* the unique colours are known the call has failed, or at least the
\* initialization loop is not spinning on draws that are all rejected.
C2_InsufficientUniqueColorsRaised ==
  (pc \notin {"toPixelArray", "unique"}
     /\ allOptions.clusterQuantity > Len(uniqueColors)) =>
    \/ pc = "error"
    \/ /\ pc = "init"
       /\ \E index \in RandomIndex(Len(uniqueColors)) : ~Includes(picked, index)

\* C3: when width * height differs from buffer.length / 4 the call fails in
\* toPixelArray with the invalid-dimensions error, and no sample, unique
\* colour, centroid, assignment, round or output buffer is ever produced.
C3_InvalidDimensionsFailFast ==
  Int2Rat(width * height) # Rat(Len(data), 4) =>
    /\ pc \in {"toPixelArray", "error"}
    /\ pc = "error" => error = "Invalid image dimensions"
    /\ pixels = <<>> /\ uniqueColors = <<>> /\ centroids = <<>>
    /\ DOMAIN clusters = {} /\ iterationCount = 0 /\ newData = <<>>

C3_Witness ==
  /\ pc = "error"
  /\ Len(data) % 4 # 0
  /\ error = "Invalid image dimensions"

\* C4: when the engine has stopped (maxIterations >= 1), the assignment map
\* has exactly the sample indexes 0 .. number of samples - 1 as its keys and
\* every value is a cluster index in 0 .. clusterQuantity - 1.
C4_Coverage ==
  (AfterLoop /\ allOptions.maxIterations >= 1) =>
    /\ DOMAIN clusters = SampleIndexes
    /\ \A pixel \in SampleIndexes : clusters[pixel] \in ClusterIndexes
    /\ Cardinality(DOMAIN clusters) = Len(pixels)

C4_Witness ==
  /\ pc = "reconstruct"
  /\ Len(pixels) >= 4
  /\ allOptions.clusterQuantity = 3
  /\ \A ci \in ClusterIndexes : \E pixel \in SampleIndexes : clusters[pixel] = ci

\* The squared distance every centroid moved in the last round is strictly
\* below the square of a positive tolerance.
AllMovedLessThanTolerance ==
  /\ RLess(Zero, allOptions.tolerance)
  /\ \A j \in 1..Len(centroids) :
       RLess(distSquared(centroids[j], previousCentroids[j]),
             RSquare(allOptions.tolerance))

\* C5: the engine stops as Converged at the end of a round if and only if
\* every centroid is at a distance strictly below tolerance from its snapshot
\* taken at the start of that round.
C5_ConvergedIffAllBelowTolerance ==
  AfterRound =>
    /\ hasConverged <=> AllMovedLessThanTolerance
    /\ (pc = "reconstruct" /\ iteration < allOptions.maxIterations) <=> hasConverged

\* A round in which a centroid moved by exactly the (positive) tolerance and
\* no centroid moved by more: the engine goes on.
C5_Witness ==
  /\ AfterRound
  /\ pc = "loop"
  /\ ~hasConverged
  /\ RLess(Zero, allOptions.tolerance)
  /\ \E j \in 1..Len(centroids) :
       distSquared(centroids[j], previousCentroids[j])
         = RSquare(allOptions.tolerance)
  /\ \A j \in 1..Len(centroids) :
       ~RLess(RSquare(allOptions.tolerance),
              distSquared(centroids[j], previousCentroids[j]))

Members(ci) == {pixel \in SampleIndexes : clusters[pixel] = ci}

\* C6: a cluster that received no sample in the assignment pass of a round
\* has, after the round, the centroid it had before the round.
C6_EmptyClusterKeepsCentroid ==
  AfterRound =>
    \A ci \in ClusterIndexes :
      Members(ci) = {} => centroids[ci + 1] = previousCentroids[ci + 1]

C6_Witness ==
  /\ AfterRound
  /\ \E ci \in ClusterIndexes :
       /\ Members(ci) = {}
       /\ centroids[ci + 1] = previousCentroids[ci + 1]
       /\ centroids[ci + 1] # Pixel(Zero, Zero, Zero, Zero)

\* The colours of the pixels of the output buffer
OutputColors ==
  {<<newData[4 * j + 1], newData[4 * j + 2], newData[4 * j + 3], newData[4 * j + 4]>> :
     j \in 0..((Len(newData) \div 4) - 1)}

\* The colours of the pixels of the input buffer
InputColors ==
  {<<data[4 * j + 1], data[4 * j + 2], data[4 * j + 3], data[4 * j + 4]>> :
     j \in 0..((Len(data) \div 4) - 1)}

Scenario2x2 ==
  /\ width = 2 /\ height = 2 /\ Len(data) = 16
  /\ Cardinality(InputColors) = 4
  /\ allOptions = ScenarioOptions

\* C7: in the 2 x 2 scenario, whatever the two initial centroids, the output
\* buffer has exactly two distinct pixel colours, and both clusters have
\* members, so each colour covers a non-empty set of the four pixels.
C7_TwoColours ==
  (Scenario2x2 /\ pc = "done") =>
    /\ Len(newData) = 16
    /\ Cardinality(OutputColors) = 2
    /\ \A ci \in ClusterIndexes : Members(ci) # {}

\* A run of the scenario that needed more than one round and that moved a
\* centroid off the colours of the image
C7_Witness ==
  /\ Scenario2x2
  /\ pc = "done"
  /\ iterationCount >= 2
  /\ OutputColors \cap InputColors = {}

\* C8: with xStep = yStep = 1, fromPixelArray applied to the samples of
\* toPixelArray returns the original buffer, element for element.
C8_RoundTrip ==
  (pc = "returned" /\ allOptions.xStep = 1 /\ allOptions.yStep = 1) =>
    newData = data

C8_Witness ==
  /\ pc = "returned"
  /\ allOptions.xStep = 1 /\ allOptions.yStep = 1
  /\ width >= 2 /\ height >= 2
  /\ newData = data
  /\ \E p \in 1..Len(data) : data[p] = 255
  /\ \E p \in 1..Len(data) : data[p] = 0

\* C10: in the assignment pass every sample goes to a centroid of minimal
\* squared distance over the four channels, and to the one of lowest index
\* among those at the minimal distance.
C10_NearestLowestIndex ==
  AfterRound =>
    \A pixel \in SampleIndexes :
      \A ci \in ClusterIndexes :
        LET own == distSquared(pixels[pixel + 1], previousCentroids[clusters[pixel] + 1])
            other == distSquared(pixels[pixel + 1], previousCentroids[ci + 1])
        IN  /\ ~RLess(other, own)
            /\ ci < clusters[pixel] => RLess(own, other)

\* A sample at the same minimal distance from two centroids
C10_Witness ==
  /\ AfterRound
  /\ \E pixel \in SampleIndexes :
       \E ci \in ClusterIndexes :
         /\ ci > clusters[pixel]
         /\ distSquared(pixels[pixel + 1], previousCentroids[ci + 1])
              = distSquared(pixels[pixel + 1], previousCentroids[clusters[pixel] + 1])

\* The pixels (row, column) of the image that lie in the grid cell of the
\* given cell row and cell column
CellPixels(cellRow, cellCol) ==
  {p \in (0..(height - 1)) \X (0..(width - 1)) :
     /\ p[1] \div allOptions.yStep = cellRow
     /\ p[2] \div allOptions.xStep = cellCol}

\* The sum of one channel of the input buffer over a set of pixels
RECURSIVE ChannelTotal(_, _)
ChannelTotal(S, offset) ==
  IF S = {} THEN 0
  ELSE LET p == CHOOSE p \in S : TRUE
       IN  data[(p[1] * width + p[2]) * 4 + offset + 1]
             + ChannelTotal(S \ {p}, offset)

CellRows == {y \div allOptions.yStep : y \in 0..(height - 1)}

CellCols == {x \div allOptions.xStep : x \in 0..(width - 1)}

\* C11: toPixelArray returns one sample for every grid cell, in row-major
\* cell order, and every channel of a sample is the sum of that channel over
\* the pixels of the image that lie in the cell divided by the number of
\* those pixels (a truncated cell is divided by its own pixel count).
C11_CellMeans ==
  pc \in {"recomposer", "returned"} =>
    /\ Len(pixels) = Cardinality(CellCols) * Cardinality(CellRows)
    /\ \A cellRow \in CellRows, cellCol \in CellCols :
         LET S == CellPixels(cellRow, cellCol)
             n == Cardinality(S)
             sample == pixels[cellRow * Cardinality(CellCols) + cellCol + 1]
         IN  /\ n > 0
             /\ sample = Pixel(Rat(ChannelTotal(S, 0), n), Rat(ChannelTotal(S, 1), n),
                               Rat(ChannelTotal(S, 2), n), Rat(ChannelTotal(S, 3), n))

\* A sampled image whose last column of cells and last row of cells are
\* truncated, with a truncated cell of non-zero mean
C11_Witness ==
  /\ pc = "recomposer"
  /\ allOptions.xStep = 2 /\ allOptions.yStep = 2
  /\ width = 3 /\ height = 1
  /\ Len(pixels) = 2
  /\ pixels[2].red = Int2Rat(data[9])
  /\ data[9] > 0

\* n is the integer nearest to the rational v, a half rounded up:
\* n - 1/2 <= v < n + 1/2
IsNearestHalfUp(n, v) ==
  /\ (2 * n - 1) * v.den <= 2 * v.num
  /\ 2 * v.num < (2 * n + 1) * v.den

\* The number of the grid cell (the index of its sample) that covers a pixel
CellNumber(y, x) ==
  (y \div allOptions.yStep) * Cardinality(CellCols) + (x \div allOptions.xStep)

\* C12: the buffer of a call that returned is as long as the input buffer,
\* width * height * 4, and every pixel of the image carries, channel by
\* channel, the final centroid of the cluster assigned to the sample of the
\* grid cell that covers the pixel, rounded to the nearest integer with a
\* half rounded up; the pixels of one cell have one colour.
C12_OutputIsRoundedCentroid ==
  pc = "done" =>
    /\ Len(newData) = width * height * 4
    /\ Len(newData) = Len(data)
    /\ \A y \in 0..(height - 1), x \in 0..(width - 1) :
         LET centroid == centroids[clusters[CellNumber(y, x)] + 1]
             at == (y * width + x) * 4
         IN  /\ IsNearestHalfUp(newData[at + 1], centroid.red)
             /\ IsNearestHalfUp(newData[at + 2], centroid.green)
             /\ IsNearestHalfUp(newData[at + 3], centroid.blue)
             /\ IsNearestHalfUp(newData[at + 4], centroid.alpha)

\* A returned call with cells of two pixels in which a final centroid has a
\* channel exactly half way between two integers, the lower one even
C12_Witness ==
  /\ pc = "done"
  /\ allOptions.xStep = 2
  /\ width >= 3
  /\ \E y \in 0..(height - 1), x \in 0..(width - 1) :
       LET centroid == centroids[clusters[CellNumber(y, x)] + 1]
       IN  /\ centroid.red.den = 2
           /\ (centroid.red.num \div 2) % 2 = 0
           /\ newData[(y * width + x) * 4 + 1] = (centroid.red.num + 1) \div 2

\* C16: in a call with positive integer steps the grid-size check of
\* fromPixelArray never fails: from sampling on, the sample array has one
\* element per grid cell of the image, and the call never ends in the
\* grid-size error.
C16_GridCheckNeverFails ==
  /\ error # "Pixel array length does not match expected grid size"
  /\ pc \in {"unique", "init", "loop", "reconstruct", "done"} =>
       Len(pixels) = Cardinality(CellCols) * Cardinality(CellRows)

\* A returned call on an image whose width is not a multiple of xStep
C16_Witness ==
  /\ pc = "done"
  /\ allOptions.xStep = 2
  /\ width % 2 = 1
  /\ height = 2
  /\ Len(pixels) = ((width + 1) \div 2) * 2
  /\ Len(newData) = width * height * 4

\* C18: the buffer of a call that returned has at most clusterQuantity
\* distinct pixel colours, and every one of them is the channel-wise
\* rounding of one of the final centroids.
C18_AtMostKColours ==
  pc = "done" =>
    /\ Cardinality(OutputColors) <= allOptions.clusterQuantity
    /\ \A colour \in OutputColors :
         \E j \in 1..Len(centroids) :
           /\ IsNearestHalfUp(colour[1], centroids[j].red)
           /\ IsNearestHalfUp(colour[2], centroids[j].green)
           /\ IsNearestHalfUp(colour[3], centroids[j].blue)
           /\ IsNearestHalfUp(colour[4], centroids[j].alpha)

\* A returned call on an image of more than three colours, clustered into
\* three, whose output has exactly three colours
C18_Witness ==
  /\ pc = "done"
  /\ allOptions.clusterQuantity = 3
  /\ Cardinality(InputColors) > 3
  /\ Cardinality(OutputColors) = 3

\* C19: with tolerance = 0 no round of the k-means loop passes the
\* convergence check, not even a round in which no centroid moves: every
\* round started is followed by the next one until maxIterations rounds have
\* run, and the loop is left only as MaxIterationsReached.
C19_ZeroToleranceNeverConverges ==
  (allOptions.tolerance = Zero /\ allOptions.clusterQuantity >= 1) =>
    /\ ~hasConverged
    /\ pc = "loop" => iterationCount = iteration
                        /\ iteration <= allOptions.maxIterations
    /\ AfterLoop => /\ iteration = allOptions.maxIterations
                    /\ iterationCount = allOptions.maxIterations

\* A call with tolerance 0 that ran maxIterations rounds and left the loop
\* after a round in which no centroid moved
C19_Witness ==
  /\ allOptions.tolerance = Zero
  /\ pc = "done"
  /\ ~hasConverged
  /\ iterationCount = allOptions.maxIterations
  /\ iterationCount >= 2
  /\ centroids = previousCentroids

Responses(id) == {j \in 1..Len(log) : log[j].request = id}

\* C14: every request posted to the worker is eventually answered by exactly
\* one message, of status "success" with the output ImageData or of status
\* "error", and the promise of runClusteringInWorker is eventually resolved
\* or rejected, and never settled twice.
C14_EveryRequestAnswered ==
  \A id \in RequestIds :
    /\ [](/\ Cardinality(Responses(id)) <= 1
          /\ id \in DOMAIN promises => Len(promises[id]) <= 1)
    /\ [](id \in DOMAIN promises =>
            <>(/\ Cardinality(Responses(id)) = 1
               /\ \A j \in Responses(id) : log[j].data.status \in {"success", "error"}
               /\ id \in DOMAIN promises
               /\ Len(promises[id]) = 1))

\* The failure messages the worker has posted
ErrorResponses == {j \in 1..Len(log) : log[j].data.status = "error"}

\* C15 as stated: every failure message of the worker has a field named
\* message and carries no output buffer.
C15_ErrorFieldNamedMessage ==
  \A j \in ErrorResponses :
    /\ "message" \in DOMAIN log[j].data
    /\ "data" \notin DOMAIN log[j].data

\* C15, amended: when the call of clusterizeImage has thrown, the message
\* the worker posts for the request is the record of status "error" whose
\* field error is the message of the Error thrown, and it has no other
\* field (no output buffer).
C15_ErrorResponseCarriesMessage ==
  [][(pc = "error" /\ workerRequest # 0 /\ log' # log) =>
       /\ Len(log') = Len(log) + 1
       /\ log'[Len(log')].request = workerRequest
       /\ DOMAIN log'[Len(log')].data = {"status", "error"}
       /\ log'[Len(log')].data.status = "error"
       /\ log'[Len(log')].data.error = error
       /\ error # ""]_vars

\* The worker has answered a request with the failure of the relabelling
\* loop, and the page has rejected the promise of that request
C15_Witness ==
  \E j \in ErrorResponses :
    /\ log[j].data.error = "Cannot read properties of undefined"
    /\ promises[log[j].request] = <<"reject">>

\* The calls of onSubmit that have not returned
Running == {id \in DOMAIN submits : submits[id].at # "returned"}

\* The requests the page has posted and whose answer it has not handled
InFlight ==
  {inbox[j].request : j \in 1..Len(inbox)}
    \cup (IF workerRequest # 0 THEN {workerRequest} ELSE {})
    \cup {outbox[j].request : j \in 1..Len(outbox)}

\* C17: at most one call of onSubmit is running and at most one request is
\* in flight, isLoading is true as long as one is, and the listeners
\* registered on the worker are those of the request in flight, so that a
\* message event of the worker reaches only the handlers of the request it
\* answers.
C17_OneRequestInFlight ==
  /\ Cardinality(Running) <= 1
  /\ Cardinality(InFlight) <= 1
  /\ Len(inbox) + Len(outbox) <= 1
  /\ Running # {} => isLoading
  /\ InFlight # {} => isLoading
  /\ listeners = InFlight
  /\ \A j \in 1..Len(outbox) : listeners \subseteq {outbox[j].request}

\* The answer to a second request is about to be dispatched, after the
\* first request was answered
C17_Witness ==
  /\ outbox # <<>>
  /\ Head(outbox).request = 2
  /\ listeners = {2}
  /\ 1 \in DOMAIN promises
  /\ Len(promises[1]) = 1
  /\ isLoading

====
